---- MODULE Spec2Model ----
(***************************************************************************)
(* The notebook "RDDs vs. DataFrames What Gives": three code cells run by  *)
(* a notebook kernel, one statement at a time, over one global namespace.  *)
(*   - the RDD word count          (source lines 110-127)                  *)
(*   - the DataFrame word count    (source lines 168-186)                  *)
(*   - Example 2, RDD <-> DataFrame conversion (source lines 265-288)      *)
(* A string is a sequence of one-character strings, a text is a sequence   *)
(* of lines.  A notebook variable that is not bound yet is <<>>, a bound   *)
(* one is <<value>>.                                                       *)
(***************************************************************************)
EXTENDS Integers, Sequences, FiniteSets, TLC

VARIABLES
    file,             \* dbfs:/FileStore/sherlock.txt: <<>> (missing) or <<text>>
    literal,          \* the list literal handed to parallelize in Example 2
    pc,               \* the statement the kernel runs next, "idle" between cells
    out,              \* the output area of each cell: the lines printed
    status,           \* of each cell: "new", "running", "ok", or the error raised
    lines_rdd, word_counts_rdd, top_10_rdd, word, count,
    imported, lines_df, words_df, word_counts_df,
    data_rdd, schema, df_from_rdd, rdd_from_df, element

rddVars == <<lines_rdd, word_counts_rdd, top_10_rdd, word, count>>
dfVars  == <<lines_df, words_df, word_counts_df>>
exVars  == <<data_rdd, schema, df_from_rdd, rdd_from_df, element>>
vars    == <<file, literal, pc, out, status, rddVars, imported, dfVars, exVars>>

----------------------------------------------------------------------------
(* Bounds of the model *)

\* the characters of a generated text, line ends included
MaxSize == 3
\* the partitions the framework may cut the lines into
MaxParts == 2
\* the pairs of a generated Example 2 literal
MaxPairs == 2

\* take(10), limit(10)
TopN == 10

----------------------------------------------------------------------------
(* Values *)

Undef == <<>>
Def(v) == <<v>>
Val(x) == x[1]

SeqsUpTo(S, n) == UNION {[1..k -> S] : k \in 0..n}

RECURSIVE Concat(_)
Concat(ss) == IF ss = <<>> THEN <<>> ELSE Head(ss) \o Concat(Tail(ss))

Take(s, n) == SubSeq(s, 1, IF Len(s) < n THEN Len(s) ELSE n)

Range(s) == {s[i] : i \in DOMAIN s}

\* str(n) of an integer of at most 32 bits
RECURSIVE NatDigits(_)
NatDigits(n) ==
    LET d == <<"0", "1", "2", "3", "4", "5", "6", "7", "8", "9">>[(n % 10) + 1]
    IN  IF n < 10 THEN <<d>> ELSE NatDigits(n \div 10) \o <<d>>

Str(n) == IF n < 0 THEN <<"-">> \o NatDigits(0 - n) ELSE NatDigits(n)

----------------------------------------------------------------------------
(* The input text *)

Alphabet == {"a", "A", ",", " "}

\* every text whose lines, each with its line end, take at most n characters
RECURSIVE Texts(_)
Texts(n) ==
    IF n <= 0 THEN {<<>>}
    ELSE {<<>>} \cup
         UNION {{<<l>> \o t : t \in Texts(n - Len(l) - 1)} :
                    l \in SeqsUpTo(Alphabet, n - 1)}

\* a longer text of eleven words, the k-th of them k times: each once on the
\* first line, the other occurrences on the second
BaseWords == <<<<"a">>, <<"a", ",">>, <<"b">>, <<"c">>, <<"d">>, <<"e">>,
               <<"f">>, <<"g">>, <<"h">>, <<"i">>, <<"j">>>>

RECURSIVE JoinSp(_)
JoinSp(ws) ==
    IF Len(ws) = 0 THEN <<>>
    ELSE IF Len(ws) = 1 THEN ws[1]
    ELSE ws[1] \o <<" ">> \o JoinSp(Tail(ws))

BaseText ==
    <<JoinSp(BaseWords),
      JoinSp(Concat([k \in 1..Len(BaseWords) |-> [i \in 1..(k - 1) |-> BaseWords[k]]]))>>

\* the file is missing, holds a short text, or the longer text and a shorter tail
Files == {Undef} \cup {Def(t) : t \in Texts(MaxSize)}
              \cup {Def(BaseText \o t) : t \in Texts(MaxSize - 1)}

----------------------------------------------------------------------------
(* The framework calls the cells make *)

\* the error spark.read.text raises, when it resolves the path, for a missing file
PathNotFound == "AnalysisException: [PATH_NOT_FOUND] dbfs:/FileStore/sherlock.txt"

\* a read that swallows the error and gives no lines for a missing file
spark_read_text_quiet(f) ==
    IF f = Undef
    THEN [ok |-> TRUE, error |-> "none", rows |-> <<>>]
    ELSE [ok |-> TRUE, error |-> "none", rows |-> [i \in DOMAIN Val(f) |-> [value |-> Val(f)[i]]]]

\* spark.read.text(path): one row, with the one column "value", for each line
spark_read_text(f) ==
    IF f = Undef
    THEN [ok |-> FALSE, error |-> PathNotFound, rows |-> <<>>]
    ELSE [ok |-> TRUE, error |-> "none", rows |-> [i \in DOMAIN Val(f) |-> [value |-> Val(f)[i]]]]

\* line.split(" "): cut at every single space, empty strings kept
RECURSIVE PySplit(_)
PySplit(line) ==
    IF \A i \in 1..Len(line) : line[i] # " " THEN <<line>>
    ELSE LET i == CHOOSE i \in 1..Len(line) :
                      line[i] = " " /\ \A j \in 1..(i - 1) : line[j] # " "
         IN  <<SubSeq(line, 1, i - 1)>> \o PySplit(SubSeq(line, i + 1, Len(line)))

\* split(col("value"), " "): the regular expression " " matched from left to
\* right and the pieces between the matches, trailing empty ones kept (limit -1)
SqlSplit(str) ==
    LET at == {i \in 1..Len(str) : str[i] = " "}
        n  == Cardinality(at)
        \* the position of the m-th match; 0 before the first, Len + 1 after the last
        pos[m \in 0..(n + 1)] ==
            IF m = 0 THEN 0
            ELSE IF m = n + 1 THEN Len(str) + 1
            ELSE CHOOSE i \in at : Cardinality({j \in at : j < i}) = m - 1
    IN  [m \in 1..(n + 1) |-> SubSeq(str, pos[m - 1] + 1, pos[m] - 1)]

\* lambda word: len(word) >= 0, a filter that drops nothing
anyLength(w) == Len(w) >= 0

\* lambda word: len(word) > 0
nonEmpty(w) == Len(w) > 0

\* length(col("word")) > 1, the bound off by one
lengthOver1(w) == Len(w) > 1

\* length(col("word")) >= 1
lengthAtLeast1(w) == Len(w) >= 1

\* lambda a, b: a + 1, which counts the merges instead of adding the counts
addOne(a, b) == a + 1

\* lambda a, b: a + b
add(a, b) == a + b

\* the ways the framework may cut n records into p partitions of consecutive
\* records (some may be empty): the p - 1 places where it cuts
Cuts(n, p) == {c \in [1..(p - 1) -> 0..n] : \A i \in 1..(p - 2) : c[i] <= c[i + 1]}

Partition(s, c) ==
    LET p == Len(c) + 1
        from(i) == IF i = 1 THEN 1 ELSE c[i - 1] + 1
        to(i)   == IF i = p THEN Len(s) ELSE c[i]
    IN  [i \in 1..p |-> SubSeq(s, from(i), to(i))]

\* the orders in which the partial results of p partitions may arrive
Orders(p) == {o \in [1..p -> 1..p] : \A i, j \in 1..p : o[i] = o[j] => i = j}

\* the left fold of a non-empty sequence of counts with the cell's lambda
Fold(s) ==
    LET r[i \in 1..Len(s)] == IF i = 1 THEN s[1] ELSE add(r[i - 1], s[i])
    IN  r[Len(s)]

\* reduceByKey(lambda a, b: a + b): the lambda folds the values of a key
\* inside each partition (map-side combine), then the partial results of the
\* key in the order they arrive
ReduceByKey(parts, order) ==
    LET keys == UNION {{kv[1] : kv \in Range(parts[i])} : i \in DOMAIN parts}
        valuesOf(i, k) ==
            LET kvs == SelectSeq(parts[i], LAMBDA kv : kv[1] = k)
            IN  [j \in DOMAIN kvs |-> kvs[j][2]]
        merged(k) ==
            LET has == SelectSeq(order, LAMBDA i : valuesOf(i, k) # <<>>)
            IN  Fold([j \in DOMAIN has |-> Fold(valuesOf(has[j], k))])
    IN  {<<k, merged(k)>> : k \in keys}

\* sortBy(lambda x: x[1], ascending): every order of the pairs the sort may
\* give; pairs of equal count come in the order the partitions deliver them
RECURSIVE SortBy(_, _)
SortBy(S, ascending) ==
    IF S = {} THEN {<<>>}
    ELSE LET first == {x \in S : \A y \in S :
                          IF ascending THEN x[2] <= y[2] ELSE x[2] >= y[2]}
         IN  UNION {{<<x>> \o s : s \in SortBy(S \ {x}, ascending)} : x \in first}

\* orderBy(col("count"), ascending): the same over rows
RECURSIVE OrderBy(_, _)
OrderBy(S, ascending) ==
    IF S = {} THEN {<<>>}
    ELSE LET first == {x \in S : \A y \in S :
                          IF ascending THEN x.count <= y.count ELSE x.count >= y.count}
         IN  UNION {{<<x>> \o s : s \in OrderBy(S \ {x}, ascending)} : x \in first}

----------------------------------------------------------------------------
(* The RDD Example cell *)

\* .rdd.map(lambda row: row[0])
lines_rdd_of(rows) == [i \in DOMAIN rows |-> rows[i].value]

\* flatMap(split).filter(len > 0).map((word, 1)).reduceByKey(a + b), on the
\* partitions cut at c, the partial counts merged in the order o
word_counts_rdd_of(lines, c, o) ==
    LET pairsOf(part) ==
            LET words == SelectSeq(Concat([i \in DOMAIN part |-> PySplit(part[i])]),
                                   nonEmpty)
            IN  [i \in DOMAIN words |-> <<words[i], 1>>]
        parts == Partition(lines, c)
    IN  ReduceByKey([i \in DOMAIN parts |-> pairsOf(parts[i])], o)

\* sortBy(lambda x: x[1]).take(10): ascending, the default
bottom_10_rdd_of(counts) == {Take(s, TopN) : s \in SortBy(counts, TRUE)}

\* sortBy(lambda x: x[1], ascending=False).take(10)
top_10_rdd_of(counts) == {Take(s, TopN) : s \in SortBy(counts, FALSE)}

\* print(f"{word}: {count}")
FormatPair(w, n) == w \o <<":", " ">> \o Str(n)

Cells == {"rdd", "df", "ex"}

FirstStep(c) ==
    CASE c = "rdd" -> "rdd_read"
      [] c = "df"  -> "df_import"
      [] c = "ex"  -> "ex_import"

\* the user runs a cell: the kernel is free, the cell's output area is cleared
RunCell(c) ==
    /\ pc = "idle"
    /\ pc' = FirstStep(c)
    /\ out' = [out EXCEPT ![c] = <<>>]
    /\ status' = [status EXCEPT ![c] = "running"]
    /\ UNCHANGED <<file, literal, rddVars, imported, dfVars, exVars>>

\* line 111
rdd_read ==
    /\ pc = "rdd_read"
    /\ LET r == spark_read_text(file)
       IN  IF r.ok
           THEN /\ lines_rdd' = Def(lines_rdd_of(r.rows))
                /\ pc' = "rdd_counts"
                /\ UNCHANGED status
           ELSE /\ status' = [status EXCEPT !["rdd"] = r.error]
                /\ pc' = "idle"
                /\ UNCHANGED lines_rdd
    /\ UNCHANGED <<file, literal, out, word_counts_rdd, top_10_rdd, word, count,
                   imported, dfVars, exVars>>

\* lines 114-119
rdd_counts ==
    /\ pc = "rdd_counts"
    /\ \E p \in 1..MaxParts :
         \E c \in Cuts(Len(Val(lines_rdd)), p), o \in Orders(p) :
            word_counts_rdd' = Def(word_counts_rdd_of(Val(lines_rdd), c, o))
    /\ pc' = "rdd_top"
    /\ UNCHANGED <<file, literal, out, status, lines_rdd, top_10_rdd, word, count,
                   imported, dfVars, exVars>>

\* line 122
rdd_top ==
    /\ pc = "rdd_top"
    /\ \E t \in top_10_rdd_of(Val(word_counts_rdd)) : top_10_rdd' = Def(t)
    /\ pc' = "rdd_header"
    /\ UNCHANGED <<file, literal, out, status, lines_rdd, word_counts_rdd, word, count,
                   imported, dfVars, exVars>>

\* line 125
rdd_header ==
    /\ pc = "rdd_header"
    /\ out' = [out EXCEPT !["rdd"] = Append(@, <<"Top 10 words using RDD:">>)]
    /\ pc' = "rdd_loop"
    /\ UNCHANGED <<file, literal, status, rddVars, imported, dfVars, exVars>>

\* lines 126-127: the for loop, which leaves word and count bound to the last pair
rdd_loop ==
    /\ pc = "rdd_loop"
    /\ LET t == Val(top_10_rdd)
       IN  /\ out' = [out EXCEPT !["rdd"] =
                         @ \o [i \in DOMAIN t |-> FormatPair(t[i][1], t[i][2])]]
           /\ IF t = <<>>
              THEN UNCHANGED <<word, count>>
              ELSE /\ word' = Def(t[Len(t)][1])
                   /\ count' = Def(t[Len(t)][2])
    /\ status' = [status EXCEPT !["rdd"] = "ok"]
    /\ pc' = "idle"
    /\ UNCHANGED <<file, literal, lines_rdd, word_counts_rdd, top_10_rdd,
                   imported, dfVars, exVars>>

----------------------------------------------------------------------------
(* The DataFrame Example cell *)

\* withColumn("word", explode(split(col("value"), " "))): one row for each
\* piece of the row's line, then filter(length(col("word")) >= 1)
words_df_of(rows) ==
    LET explode(row) ==
            LET pieces == SqlSplit(row.value)
            IN  [i \in DOMAIN pieces |-> [value |-> row.value, word |-> pieces[i]]]
    IN  SelectSeq(Concat([i \in DOMAIN rows |-> explode(rows[i])]),
                  LAMBDA r : lengthAtLeast1(r.word))

\* groupBy("word").count().orderBy(col("count"), ascending=False).limit(10):
\* the rows the plan may give when show() evaluates it
word_counts_df_of(words) ==
    LET counted == {[word |-> w,
                     count |-> Cardinality({i \in DOMAIN words : words[i].word = w})] :
                        w \in {r.word : r \in Range(words)}}
    IN  {Take(s, TopN) : s \in OrderBy(counted, FALSE)}

\* show() prints a cell of more than 20 characters as its first 17 and "..."
ShowCell(chars) ==
    IF Len(chars) > 20 THEN SubSeq(chars, 1, 17) \o <<".", ".", ".">> ELSE chars

\* show(): the column names, then a line for each row (the padding and the
\* rules of the table are left out)
ShowString(names, rows) ==
    LET line(cells) ==
            <<"|">> \o Concat([i \in DOMAIN cells |-> ShowCell(cells[i]) \o <<"|">>])
    IN  <<line([i \in DOMAIN names |-> <<names[i]>>])>>
        \o [i \in DOMAIN rows |-> line(rows[i])]

\* the cells show() prints for rows of (word, count): the word, str(count)
CellsOfCounts(rows) == [i \in DOMAIN rows |-> <<rows[i].word, Str(rows[i].count)>>]

\* line 168
df_import ==
    /\ pc = "df_import"
    /\ imported' = imported \cup {"split", "explode", "col", "length"}
    /\ pc' = "df_read"
    /\ UNCHANGED <<file, literal, out, status, rddVars, dfVars, exVars>>

\* line 171 with the name of the other cell: lines_rdd = lines_df = spark.read.text(...)
df_read_into_lines_rdd ==
    /\ pc = "df_read"
    /\ LET r == spark_read_text(file)
       IN  IF r.ok
           THEN /\ lines_df' = Def(r.rows)
                /\ lines_rdd' = Def(r.rows)
                /\ pc' = "df_words"
                /\ UNCHANGED status
           ELSE /\ status' = [status EXCEPT !["df"] = r.error]
                /\ pc' = "idle"
                /\ UNCHANGED <<lines_df, lines_rdd>>
    /\ UNCHANGED <<file, literal, out, word_counts_rdd, top_10_rdd, word, count,
                   imported, words_df, word_counts_df, exVars>>

\* line 171
df_read ==
    /\ pc = "df_read"
    /\ LET r == spark_read_text(file)
       IN  IF r.ok
           THEN /\ lines_df' = Def(r.rows)
                /\ pc' = "df_words"
                /\ UNCHANGED status
           ELSE /\ status' = [status EXCEPT !["df"] = r.error]
                /\ pc' = "idle"
                /\ UNCHANGED lines_df
    /\ UNCHANGED <<file, literal, out, rddVars, imported, words_df, word_counts_df, exVars>>

\* line 174
df_words ==
    /\ pc = "df_words"
    /\ words_df' = Def(words_df_of(Val(lines_df)))
    /\ pc' = "df_counts"
    /\ UNCHANGED <<file, literal, out, status, rddVars, imported, lines_df,
                   word_counts_df, exVars>>

\* lines 177-182
df_counts ==
    /\ pc = "df_counts"
    /\ \E t \in word_counts_df_of(Val(words_df)) : word_counts_df' = Def(t)
    /\ pc' = "df_header"
    /\ UNCHANGED <<file, literal, out, status, rddVars, imported, lines_df,
                   words_df, exVars>>

\* line 185
df_header ==
    /\ pc = "df_header"
    /\ out' = [out EXCEPT !["df"] = Append(@, <<"Top 10 words using DataFrame:">>)]
    /\ pc' = "df_show"
    /\ UNCHANGED <<file, literal, status, rddVars, imported, dfVars, exVars>>

\* line 186
df_show ==
    /\ pc = "df_show"
    /\ out' = [out EXCEPT !["df"] =
                  @ \o ShowString(<<"word", "count">>,
                                  CellsOfCounts(Val(word_counts_df)))]
    /\ status' = [status EXCEPT !["df"] = "ok"]
    /\ pc' = "idle"
    /\ UNCHANGED <<file, literal, rddVars, imported, dfVars, exVars>>

----------------------------------------------------------------------------
(* Example 2: conversion between RDD and DataFrame *)

\* A Python int has no width: [q, r] stands for q * 2^16 + r, 0 <= r < 2^16
PyInt(q, r) == [q |-> q, r |-> r]

\* IntegerType: a signed 32-bit integer, q in -2^15 .. 2^15 - 1
IntegerTypeHolds(n) == n.q >= -32768 /\ n.q <= 32767

\* Python int -> the JVM int of a row, and back
ToJavaInt(n) == n.q * 65536 + n.r
FromJavaInt(i) == PyInt(i \div 65536, i % 65536)

\* the error the schema verification of createDataFrame raises
OutOfRange == "ValueError: object of IntegerType out of range"

\* StructType([StructField("fruit", StringType(), True),
\*             StructField("count", IntegerType(), True)])
schema_of == <<[name |-> "fruit", dataType |-> "string", nullable |-> TRUE],
               [name |-> "count", dataType |-> "integer", nullable |-> TRUE]>>

\* createDataFrame(data_rdd, schema) is lazy: the plan keeps the RDD and the schema
createDataFrame(rdd, sch) == [rdd |-> rdd, schema |-> sch]

\* the schema verification of one element, run when the plan is evaluated
Verifies(t, sch) ==
    /\ Len(t) = Len(sch)
    /\ \A i \in DOMAIN sch : sch[i].dataType = "integer" => IntegerTypeHolds(t[i])

\* one element as a Row of the schema's types
ToRow(t, sch) ==
    [i \in DOMAIN sch |-> IF sch[i].dataType = "integer" THEN ToJavaInt(t[i]) ELSE t[i]]

\* evaluating the plan: a Row for each element, in order, or the error
Evaluate(df) ==
    IF \A i \in DOMAIN df.rdd : Verifies(df.rdd[i], df.schema)
    THEN [ok |-> TRUE, error |-> "none",
          rows |-> [i \in DOMAIN df.rdd |-> ToRow(df.rdd[i], df.schema)]]
    ELSE [ok |-> FALSE, error |-> OutOfRange, rows |-> <<>>]

\* the pairs collected by key, as dict(...) would: the first pair of a key only
rdd_from_df_by_key(rows) ==
    LET firsts == SelectSeq([i \in DOMAIN rows |-> i],
                            LAMBDA i : \A j \in 1..(i - 1) : rows[j][1] # rows[i][1])
    IN  [k \in DOMAIN firsts |-> <<rows[firsts[k]][1], PyInt(rows[firsts[k]][2] \div 65536,
                                                              rows[firsts[k]][2] % 65536)>>]

\* .rdd.map(lambda row: (row[0], row[1])): the int of a row is a Python int again
rdd_from_df_of(rows) == [i \in DOMAIN rows |-> <<rows[i][1], FromJavaInt(rows[i][2])>>]

\* print(element): the repr of a (str, int) tuple
Repr(e) == <<"(", "'", e[1], "'", ",", " ">> \o Str(ToJavaInt(e[2])) \o <<")">>

\* the names of the schema's columns
ColumnNames(sch) == [i \in DOMAIN sch |-> sch[i].name]

\* the cells show() prints for rows of (fruit, count)
CellsOfFruits(rows) == [i \in DOMAIN rows |-> <<<<rows[i][1]>>, Str(rows[i][2])>>]

\* line 265
ex_import ==
    /\ pc = "ex_import"
    /\ imported' = imported \cup {"StructType", "StructField", "StringType", "IntegerType"}
    /\ pc' = "ex_parallelize"
    /\ UNCHANGED <<file, literal, out, status, rddVars, dfVars, exVars>>

\* line 268
ex_parallelize ==
    /\ pc = "ex_parallelize"
    /\ data_rdd' = Def(literal)
    /\ pc' = "ex_schema"
    /\ UNCHANGED <<file, literal, out, status, rddVars, imported, dfVars,
                   schema, df_from_rdd, rdd_from_df, element>>

\* lines 271-274
ex_schema ==
    /\ pc = "ex_schema"
    /\ schema' = Def(schema_of)
    /\ pc' = "ex_createDataFrame"
    /\ UNCHANGED <<file, literal, out, status, rddVars, imported, dfVars,
                   data_rdd, df_from_rdd, rdd_from_df, element>>

\* line 276
ex_createDataFrame ==
    /\ pc = "ex_createDataFrame"
    /\ df_from_rdd' = Def(createDataFrame(Val(data_rdd), Val(schema)))
    /\ pc' = "ex_header1"
    /\ UNCHANGED <<file, literal, out, status, rddVars, imported, dfVars,
                   data_rdd, schema, rdd_from_df, element>>

\* line 279
ex_header1 ==
    /\ pc = "ex_header1"
    /\ out' = [out EXCEPT !["ex"] = Append(@, <<"DataFrame from RDD:">>)]
    /\ pc' = "ex_show"
    /\ UNCHANGED <<file, literal, status, rddVars, imported, dfVars, exVars>>

\* line 280: the first evaluation of the plan
ex_show ==
    /\ pc = "ex_show"
    /\ LET df == Val(df_from_rdd)
           r  == Evaluate(df)
       IN  IF r.ok
           THEN /\ out' = [out EXCEPT !["ex"] =
                              @ \o ShowString(ColumnNames(df.schema), CellsOfFruits(r.rows))]
                /\ pc' = "ex_rdd"
                /\ UNCHANGED status
           ELSE /\ status' = [status EXCEPT !["ex"] = r.error]
                /\ pc' = "idle"
                /\ UNCHANGED out
    /\ UNCHANGED <<file, literal, rddVars, imported, dfVars, exVars>>

\* line 283
ex_rdd ==
    /\ pc = "ex_rdd"
    /\ rdd_from_df' = Def(rdd_from_df_of(Evaluate(Val(df_from_rdd)).rows))
    /\ pc' = "ex_header2"
    /\ UNCHANGED <<file, literal, out, status, rddVars, imported, dfVars,
                   data_rdd, schema, df_from_rdd, element>>

\* line 286
ex_header2 ==
    /\ pc = "ex_header2"
    /\ out' = [out EXCEPT !["ex"] = Append(@, <<"RDD from DataFrame:">>)]
    /\ pc' = "ex_collect"
    /\ UNCHANGED <<file, literal, status, rddVars, imported, dfVars, exVars>>

\* lines 287-288: the for loop over collect(), which leaves element bound to
\* the last one
ex_collect ==
    /\ pc = "ex_collect"
    /\ LET es == Val(rdd_from_df)
       IN  /\ out' = [out EXCEPT !["ex"] = @ \o [i \in DOMAIN es |-> Repr(es[i])]]
           /\ element' = IF es = <<>> THEN element ELSE Def(es[Len(es)])
    /\ status' = [status EXCEPT !["ex"] = "ok"]
    /\ pc' = "idle"
    /\ UNCHANGED <<file, literal, rddVars, imported, dfVars,
                   data_rdd, schema, df_from_rdd, rdd_from_df>>

----------------------------------------------------------------------------
(* The notebook *)

\* [("apple", 5), ("banana", 10), ("apple", 2)]
SourceLiteral ==
    <<<<"apple", PyInt(0, 5)>>, <<"banana", PyInt(0, 10)>>, <<"apple", PyInt(0, 2)>>>>

\* other literals: two keys; counts inside IntegerType, its largest value,
\* and the values next to its two ends
Fruits == {"apple", "banana"}
Counts == {PyInt(0, 5), PyInt(32767, 65535), PyInt(32768, 0), PyInt(-32769, 65535)}
Literals == SeqsUpTo(Fruits \X Counts, MaxPairs)

Init ==
    /\ \/ file \in Files /\ literal = SourceLiteral
       \/ file = Undef /\ literal \in Literals
    /\ pc = "idle"
    /\ out = [c \in Cells |-> <<>>]
    /\ status = [c \in Cells |-> "new"]
    /\ lines_rdd = Undef /\ word_counts_rdd = Undef /\ top_10_rdd = Undef
    /\ word = Undef /\ count = Undef
    /\ imported = {}
    /\ lines_df = Undef /\ words_df = Undef /\ word_counts_df = Undef
    /\ data_rdd = Undef /\ schema = Undef /\ df_from_rdd = Undef
    /\ rdd_from_df = Undef /\ element = Undef

Next ==
    \/ \E c \in Cells : RunCell(c)
    \/ rdd_read \/ rdd_counts \/ rdd_top \/ rdd_header \/ rdd_loop
    \/ df_import \/ df_read \/ df_words \/ df_counts \/ df_header \/ df_show
    \/ ex_import \/ ex_parallelize \/ ex_schema \/ ex_createDataFrame
    \/ ex_header1 \/ ex_show \/ ex_rdd \/ ex_header2 \/ ex_collect

Spec == Init /\ [][Next]_vars

----------------------------------------------------------------------------
(* What the claims speak of, said without the pipelines' own operators *)

\* the places <<line, column>> of a text where a word starts: a character
\* that is no space, at the start of its line or right after a space
WordStarts(text) ==
    UNION {{<<i, j>> : j \in {j \in 1..Len(text[i]) :
                                /\ text[i][j] # " "
                                /\ (j = 1 \/ text[i][j - 1] = " ")}} :
              i \in DOMAIN text}

\* the word that starts there: the characters up to the next space or the line's end
WordAt(text, p) ==
    LET l == text[p[1]]
        e == CHOOSE e \in p[2]..Len(l) :
                 /\ \A j \in p[2]..e : l[j] # " "
                 /\ (e = Len(l) \/ l[e + 1] = " ")
    IN  SubSeq(l, p[2], e)

\* each distinct word of the text with the number of its occurrences
WordTable(text) ==
    LET at == WordStarts(text)
    IN  {<<w, Cardinality({p \in at : WordAt(text, p) = w})>> :
            w \in {WordAt(text, p) : p \in at}}

PairsOfRows(rows) == [i \in DOMAIN rows |-> <<rows[i].word, rows[i].count>>]

CountsOf(pairs) == [i \in DOMAIN pairs |-> pairs[i][2]]

Min(a, b) == IF a < b THEN a ELSE b

\* the same elements with the same multiplicities
SameBag(s, t) ==
    \A x \in Range(s) \cup Range(t) :
        Cardinality({i \in DOMAIN s : s[i] = x}) = Cardinality({i \in DOMAIN t : t[i] = x})

\* both word counts have given their result
BothCounted == top_10_rdd # Undef /\ word_counts_df # Undef

\* no word left out of the result r has the count of an entry of r
NoTieAtCut(r, table) == \A x \in table \ Range(r) : \A i \in DOMAIN r : x[2] < r[i][2]

----------------------------------------------------------------------------
(* C1 *)

\* C1 as stated: over the same text the two pipelines give the same top-10
\* word/count pairs.
C1_SameTop10 ==
    BothCounted => Range(Val(top_10_rdd)) = Range(PairsOfRows(Val(word_counts_df)))

\* C1 as amended: the two pipelines give the same counts in the same order,
\* every pair of either being a word of the text with its number of
\* occurrences; they give the same pairs whenever no word left out has the
\* count of an entry, and then in the same order if no two entries have the
\* same count.
C1_SameTop10UpToTies ==
    BothCounted =>
        LET r == Val(top_10_rdd)
            d == PairsOfRows(Val(word_counts_df))
            table == WordTable(Val(file))
        IN  /\ CountsOf(r) = CountsOf(d)
            /\ Range(r) \subseteq table /\ Range(d) \subseteq table
            /\ NoTieAtCut(r, table) => Range(r) = Range(d)
            /\ (/\ NoTieAtCut(r, table)
                /\ \A i, j \in DOMAIN r : r[i][2] = r[j][2] => i = j) => r = d

\* both pipelines have run over a text of more than ten words, none of the
\* words left out tied with an entry
C1_Witness ==
    /\ BothCounted
    /\ Len(Val(top_10_rdd)) = TopN
    /\ Cardinality(WordTable(Val(file))) > TopN
    /\ NoTieAtCut(Val(top_10_rdd), WordTable(Val(file)))

----------------------------------------------------------------------------
(* C2 *)

EveryCountFits(pairs) == \A i \in DOMAIN pairs : IntegerTypeHolds(pairs[i][2])

ExEnded == status["ex"] \notin {"new", "running"}

----------------------------------------------------------------------------
(* C3 *)

\* C3: when the file is missing, each word count stops at its read with the
\* framework's own error: no later statement of the cell runs, none of its
\* variables is bound, and it prints nothing, the header included.
C3_ReadFailureStops ==
    file = Undef =>
        /\ pc \notin {"rdd_counts", "rdd_top", "rdd_header", "rdd_loop",
                      "df_words", "df_counts", "df_header", "df_show"}
        /\ \A c \in {"rdd", "df"} :
              /\ status[c] \in {"new", "running", PathNotFound}
              /\ out[c] = <<>>
        /\ (pc = "idle" /\ status["rdd"] # "new") => status["rdd"] = PathNotFound
        /\ (pc = "idle" /\ status["df"] # "new") => status["df"] = PathNotFound
        /\ lines_rdd = Undef /\ word_counts_rdd = Undef /\ top_10_rdd = Undef
        /\ lines_df = Undef /\ words_df = Undef /\ word_counts_df = Undef

\* both word counts were run with the file missing
C3_Witness ==
    /\ file = Undef
    /\ status["rdd"] = PathNotFound
    /\ status["df"] = PathNotFound

----------------------------------------------------------------------------
(* C4 *)

StepsOf(c) ==
    CASE c = "rdd" -> {"rdd_read", "rdd_counts", "rdd_top", "rdd_header", "rdd_loop"}
      [] c = "df"  -> {"df_import", "df_read", "df_words", "df_counts", "df_header",
                       "df_show"}
      [] c = "ex"  -> {"ex_import", "ex_parallelize", "ex_schema", "ex_createDataFrame",
                       "ex_header1", "ex_show", "ex_rdd", "ex_header2", "ex_collect"}

\* the cell a step belongs to: the one started, or the one whose statement runs
Acting(c) == IF pc = "idle" THEN pc' \in StepsOf(c) ELSE pc \in StepsOf(c)

DfNames == {"split", "explode", "col", "length"}
ExNames == {"StructType", "StructField", "StringType", "IntegerType"}

\* o is what the cell prints when it is the only cell ever run: an output
\* the cell's statements give from the file, or the literal, alone
AloneRdd(o) ==
    \E table \in {WordTable(Val(file))} :
        \E t \in top_10_rdd_of(table) :
            o = <<<<"Top 10 words using RDD:">>>>
                \o [i \in DOMAIN t |-> FormatPair(t[i][1], t[i][2])]

AloneDf(o) ==
    \E table \in {{[word |-> x[1], count |-> x[2]] : x \in WordTable(Val(file))}} :
        \E s \in OrderBy(table, FALSE) :
            o = <<<<"Top 10 words using DataFrame:">>>>
                \o ShowString(<<"word", "count">>, CellsOfCounts(Take(s, TopN)))

AloneEx(o) ==
    \E rows \in {Evaluate(createDataFrame(literal, schema_of)).rows} :
        o = <<<<"DataFrame from RDD:">>>>
            \o ShowString(<<"fruit", "count">>, CellsOfFruits(rows))
            \o <<<<"RDD from DataFrame:">>>>
            \o [i \in DOMAIN rows |-> Repr(rdd_from_df_of(rows)[i])]

\* C4: the cells are independent. No step changes the file or the literal;
\* a step of one cell leaves alone the variables, the imported names, the
\* output and the status of the other two; and a cell that has completed,
\* whatever ran before it and however often, shows an output it can show
\* when it is the only cell run.
C4_CellsIndependent ==
    /\ [](/\ status["rdd"] = "ok" => AloneRdd(out["rdd"])
          /\ status["df"] = "ok" => AloneDf(out["df"])
          /\ status["ex"] = "ok" => AloneEx(out["ex"]))
    /\ [][ /\ file' = file /\ literal' = literal
           /\ Acting("rdd") =>
                 /\ UNCHANGED <<imported, dfVars, exVars>>
                 /\ out'["df"] = out["df"] /\ out'["ex"] = out["ex"]
                 /\ status'["df"] = status["df"] /\ status'["ex"] = status["ex"]
           /\ Acting("df") =>
                 /\ UNCHANGED <<rddVars, exVars>>
                 /\ imported' \ DfNames = imported \ DfNames
                 /\ out'["rdd"] = out["rdd"] /\ out'["ex"] = out["ex"]
                 /\ status'["rdd"] = status["rdd"] /\ status'["ex"] = status["ex"]
           /\ Acting("ex") =>
                 /\ UNCHANGED <<rddVars, dfVars>>
                 /\ imported' \ ExNames = imported \ ExNames
                 /\ out'["rdd"] = out["rdd"] /\ out'["df"] = out["df"]
                 /\ status'["rdd"] = status["rdd"] /\ status'["df"] = status["df"]
         ]_vars

\* the RDD cell is run again, after its own first run and after the other
\* two cells have completed
C4_Witness ==
    /\ pc = "rdd_loop"
    /\ word # Undef
    /\ status["df"] = "ok"
    /\ status["ex"] = "ok"

----------------------------------------------------------------------------
(* C5 *)

\* C5: word_counts_rdd holds exactly one pair (w, n) for each distinct
\* non-empty word w between single spaces of the lines, n the number of its
\* occurrences over all lines; words are compared character by character.
C5_WordCounts ==
    word_counts_rdd # Undef =>
        /\ Val(word_counts_rdd) = WordTable(Val(file))
        /\ \A x, y \in Val(word_counts_rdd) : x[1] = y[1] => x = y
        /\ \A x \in Val(word_counts_rdd) : x[1] # <<>> /\ x[2] >= 1

\* "a", "A" and "a," are counted apart, "a," on two lines
C5_Witness ==
    /\ word_counts_rdd # Undef
    /\ <<<<"a">>, 1>> \in Val(word_counts_rdd)
    /\ <<<<"A">>, 1>> \in Val(word_counts_rdd)
    /\ <<<<"a", ",">>, 2>> \in Val(word_counts_rdd)

----------------------------------------------------------------------------
(* C6 *)

\* C6: the counts of reduceByKey do not depend on the partitions or on the
\* order of the merge: every cut of the lines into partitions and every
\* order of arrival of the partial counts gives the counts just computed.
C6_PartitionIndependent ==
    pc = "rdd_top" =>
        \A p \in 1..MaxParts :
            \A c \in Cuts(Len(Val(lines_rdd)), p), o \in Orders(p) :
                word_counts_rdd_of(Val(lines_rdd), c, o) = Val(word_counts_rdd)

\* counted: a text of several lines, with a word, "b", that is on two of them
C6_Witness ==
    /\ pc = "rdd_top"
    /\ Len(Val(lines_rdd)) >= 2
    /\ <<<<"b">>, 3>> \in Val(word_counts_rdd)

----------------------------------------------------------------------------
(* C7 *)

\* r is a top 10 of the table
IsTop10(r, table) ==
    /\ Len(r) = Min(TopN, Cardinality({x[1] : x \in table}))
    /\ \A i \in 1..(Len(r) - 1) : r[i][2] >= r[i + 1][2]
    /\ \A i, j \in DOMAIN r : r[i][1] = r[j][1] => i = j
    /\ Range(r) \subseteq table
    /\ \A x \in table : (\A i \in DOMAIN r : r[i][1] # x[1]) => x[2] <= r[Len(r)][2]

\* C7: the result of each pipeline has min(10, number of distinct non-empty
\* words) entries, in non-increasing order of count, no word twice, and every
\* word left out has at most the smallest count of the result.
C7_Top10 ==
    /\ top_10_rdd # Undef => IsTop10(Val(top_10_rdd), WordTable(Val(file)))
    /\ word_counts_df # Undef =>
          IsTop10(PairsOfRows(Val(word_counts_df)), WordTable(Val(file)))

\* both results over a text of more than ten words: ten entries, a word left out
C7_Witness ==
    /\ BothCounted
    /\ Cardinality(WordTable(Val(file))) > TopN
    /\ Len(Val(top_10_rdd)) = TopN
    /\ Len(Val(word_counts_df)) = TopN

====
